---------------------------- MODULE Spec2Model ----------------------------
(***************************************************************************)
(* Model of the two command-line programs of adk_agentspace_deploy:        *)
(*   deployment/as_deploy.py                 (link / list / delete)        *)
(*   weather_agent/deployment/test_deploy.py (interactive remote tester)   *)
(*                                                                         *)
(* Optional Python values are modelled as sequences of length <= 1:        *)
(* None is <<>>, the string s is <<s>>.  Str(v) is Python's formatting of  *)
(* the value inside an f-string, Truthy(v) is Python's truth test.         *)
(***************************************************************************)
EXTENDS Integers, Sequences, FiniteSets, TLC

VARIABLES
    program,      \* which executable this run is: "as_deploy" or "test_deploy"
    pc,           \* position of the single thread of control
    FLAGS,        \* absl flags of as_deploy.py after parsing
    env,          \* process environment after load_dotenv()
    url,          \* as_deploy: the URL the action built (None before)
    tokenCalls,   \* as_deploy: number of calls of get_gcloud_access_token
    credential,   \* as_deploy: what credential resolution did ("" before the call)
    requests,     \* as_deploy: the calls of requests.post/get/delete, in order
    out,          \* lines printed, by category
    raised,       \* the uncaught exception that left the program ("" if none)
    exitStatus,   \* process exit status (-1 while running)
    args,         \* test_deploy: the parsed argparse arguments
    session,      \* test_deploy: what create_session returned (None before)
    inputs,       \* test_deploy: the lines input() has returned so far
    calls         \* test_deploy: the SDK calls made on the agent, in order

vars == << program, pc, FLAGS, env, url, tokenCalls, credential, requests, out, raised,
           exitStatus, args, session, inputs, calls >>

deployVars == << FLAGS, env, url, tokenCalls, credential, requests >>
remoteVars == << args, session, inputs, calls >>

\* ------------------------------------------------------------------ bounds
MaxQueries == 2   \* non-"quit" console lines per interactive run
MaxEvents == 1    \* events streamed per query

\* ------------------------------------------------------- Python values
None == << >>
Some(s) == << s >>

Truthy(v) == v # None /\ v[1] # ""

Str(v) == IF v = None THEN "None" ELSE v[1]

\* --------------------------------------------------------- program text
USE_CASE_NAME == "weather-agent-1"

getenv(name) == env[name]


\* ------------------------------------------------ input domains of a run
ProjectIds == { None, Some(""), Some("projF") }
Locations == { None, Some("europe-west2") }
ResourceIds == { None, Some(""), Some("re1") }
AgentIds == { None, Some("ag1"), Some("/abs/ag1") }

FlagSpace ==
    [ as_project_id : ProjectIds,
      ae_project_id : { None },
      location      : Locations,
      company_name  : { Some("Datatonic") },
      list          : BOOLEAN,
      link          : BOOLEAN,
      delete        : BOOLEAN,
      resource_id   : ResourceIds,
      as_agent_id   : AgentIds ]

EnvSpace ==
    [ AS_GOOGLE_CLOUD_PROJECT : { None, Some("proj1") },
      AGENT_SPACE_APP_ID      : { Some("app1") },
      AGENT_SPACE_LOCATION    : { None, Some("global"), Some("eu") },
      GOOGLE_CLOUD_PROJECT    : { Some("aeproj") },
      GOOGLE_CLOUD_LOCATION   : { Some("us-central1") } ]

\* What default()/credentials.refresh() can do: raise, or leave a token
\* (credentials.token may be None or empty without an exception).
CredOutcomes == { "raises", "token", "no_token" }

\* What requests.post/get/delete followed by raise_for_status() can do:
\* complete ("ok") or raise one of the classes of requests.exceptions.
HttpOutcomes == { "ok", "HTTPError", "ConnectionError", "SSLError", "ProxyError",
                  "ConnectTimeout", "ReadTimeout", "Timeout", "TooManyRedirects",
                  "InvalidHeader" }

\* requests.exceptions: the direct base classes of each exception class.
Bases(cls) ==
    CASE cls = "HTTPError"        -> { "RequestException" }
      [] cls = "ConnectionError"  -> { "RequestException" }
      [] cls = "ProxyError"       -> { "ConnectionError" }
      [] cls = "SSLError"         -> { "ConnectionError" }
      [] cls = "Timeout"          -> { "RequestException" }
      [] cls = "ConnectTimeout"   -> { "ConnectionError", "Timeout" }
      [] cls = "ReadTimeout"      -> { "Timeout" }
      [] cls = "TooManyRedirects" -> { "RequestException" }
      [] cls = "InvalidHeader"    -> { "RequestException" }
      [] OTHER                    -> { }

RECURSIVE isinstance(_, _)
isinstance(cls, handler) ==
    \/ cls = handler
    \/ \E b \in Bases(cls) : isinstance(b, handler)

\* ------------------------------------------------------------ as_deploy.py

\* Variant of get_gcloud_access_token whose except clause swallows the error
\* and returns no token instead of printing the guidance and calling exit(1).
get_gcloud_access_token_swallow(cred) ==
    [ exits |-> FALSE,
      token |-> IF cred = "token" THEN Some("ya29.tok") ELSE None,
      printed |-> << >> ]

\* get_gcloud_access_token(): the token, or the two lines printed and exit(1).
get_gcloud_access_token(cred) ==
    IF cred = "raises"
    THEN [ exits |-> TRUE, token |-> None,
           printed |-> << "Error getting access token",
                          "Please ensure you are authenticated with 'gcloud auth application-default login'" >> ]
    ELSE [ exits |-> FALSE,
           token |-> IF cred = "token" THEN Some("ya29.tok") ELSE None,
           printed |-> << >> ]

\* Variant of discovery_engine_url without the test of line 69: the hostname
\* is prefixed with the location even when it is "global".
discovery_engine_url_always_regional ==
    LET project_id == IF Truthy(FLAGS.as_project_id) THEN FLAGS.as_project_id
                      ELSE getenv("AS_GOOGLE_CLOUD_PROJECT")
        agentspace_app_id == getenv("AGENT_SPACE_APP_ID")
        as_location_id == getenv("AGENT_SPACE_LOCATION")
        hostname == Str(as_location_id) \o "-" \o "discoveryengine.googleapis.com"
    IN  "https://" \o hostname \o "/v1alpha/projects/" \o Str(project_id)
        \o "/locations/" \o Str(as_location_id)
        \o "/collections/default_collection/engines/" \o Str(agentspace_app_id)
        \o "/assistants/default_assistant/agents"

\* Variant of discovery_engine_url that lets --location override
\* AGENT_SPACE_LOCATION, the way --as_project_id overrides the project.
discovery_engine_url_location_flag ==
    LET project_id == IF Truthy(FLAGS.as_project_id) THEN FLAGS.as_project_id
                      ELSE getenv("AS_GOOGLE_CLOUD_PROJECT")
        agentspace_app_id == getenv("AGENT_SPACE_APP_ID")
        as_location_id == IF Truthy(FLAGS.location) THEN FLAGS.location
                          ELSE getenv("AGENT_SPACE_LOCATION")
        hostname0 == "discoveryengine.googleapis.com"
        hostname == IF as_location_id # Some("global")
                    THEN Str(as_location_id) \o "-" \o hostname0
                    ELSE hostname0
    IN  "https://" \o hostname \o "/v1alpha/projects/" \o Str(project_id)
        \o "/locations/" \o Str(as_location_id)
        \o "/collections/default_collection/engines/" \o Str(agentspace_app_id)
        \o "/assistants/default_assistant/agents"

discovery_engine_url ==
    LET project_id == IF Truthy(FLAGS.as_project_id) THEN FLAGS.as_project_id
                      ELSE getenv("AS_GOOGLE_CLOUD_PROJECT")
        agentspace_app_id == getenv("AGENT_SPACE_APP_ID")
        as_location_id == getenv("AGENT_SPACE_LOCATION")
        hostname0 == "discoveryengine.googleapis.com"
        hostname == IF as_location_id # Some("global")
                    THEN Str(as_location_id) \o "-" \o hostname0
                    ELSE hostname0
    IN  "https://" \o hostname \o "/v1alpha/projects/" \o Str(project_id)
        \o "/locations/" \o Str(as_location_id)
        \o "/collections/default_collection/engines/" \o Str(agentspace_app_id)
        \o "/assistants/default_assistant/agents"

\* os.path.join(a, b) for the ids of AgentIds: an absolute b replaces a.
IsAbs(p) == p \in { "/abs/ag1" }

os_path_join(a, b) == IF IsAbs(b) THEN b ELSE a \o "/" \o b

\* Variant of ExceptClauses with the Timeout clause written before the
\* ConnectionError clause.
ExceptClauses_timeout_first == << "HTTPError", "Timeout", "ConnectionError", "RequestException" >>

\* The try/except around the HTTP call: the first except clause, in the
\* order written, whose class the raised exception is an instance of.
ExceptClauses == << "HTTPError", "ConnectionError", "Timeout", "RequestException" >>

Handler(http) ==
    IF \E i \in 1..Len(ExceptClauses) : isinstance(http, ExceptClauses[i])
    THEN ExceptClauses[CHOOSE i \in 1..Len(ExceptClauses) :
                          /\ isinstance(http, ExceptClauses[i])
                          /\ \A j \in 1..(i-1) : ~isinstance(http, ExceptClauses[j])]
    ELSE "uncaught"

HandlerOutput(http, successLines) ==
    CASE http = "ok"                          -> successLines
      [] Handler(http) = "HTTPError"          -> << "HTTP error occurred", "Response Content" >>
      [] Handler(http) = "ConnectionError"    -> << "Connection error occurred" >>
      [] Handler(http) = "Timeout"            -> << "Timeout error occurred" >>
      [] Handler(http) = "RequestException"   -> << "An error occurred" >>
      [] OTHER                                -> << >>

\* Variant of Send that sends the request again when the first attempt failed.
Send_with_retry(sent, request) ==
    IF request.outcome = "ok" THEN Append(sent, request)
    ELSE Append(Append(sent, request), request)

\* requests.post / requests.get / requests.delete: one call, one request.
Send(sent, request) == Append(sent, request)

\* The common shape of the three actions after url and headers' project are
\* computed: fetch the token, send one request, handle its outcome.
AuthenticatedAction(method, target, base, project, payload, successLines, cred, http) ==
    LET tk == get_gcloud_access_token(cred)
    IN  /\ url' = Some(base)
        /\ tokenCalls' = tokenCalls + 1
        /\ credential' = cred
        /\ IF tk.exits
           THEN /\ out' = out \o tk.printed
                /\ requests' = requests
                /\ raised' = "SystemExit"
                /\ exitStatus' = 1
                /\ pc' = "exited"
           ELSE IF ~Truthy(tk.token)
           THEN /\ out' = out
                /\ requests' = requests
                /\ raised' = "ValueError"
                /\ exitStatus' = 1
                /\ pc' = "exited"
           ELSE /\ requests' = Send(requests,
                       [ method  |-> method,
                         url     |-> target,
                         headers |-> [ Authorization |-> "Bearer " \o Str(tk.token),
                                       ContentType |-> "application/json",
                                       XGoogUserProject |-> project ],
                         json    |-> payload,
                         outcome |-> http ])
                /\ out' = out \o HandlerOutput(http, successLines)
                /\ raised' = IF http = "ok" \/ Handler(http) # "uncaught" THEN "" ELSE http
                /\ exitStatus' = IF http = "ok" \/ Handler(http) # "uncaught" THEN 0 ELSE 1
                /\ pc' = "exited"

link_agent_to_agentspace(agent_engine_id) ==
    /\ pc = "link_agent_to_agentspace"
    /\ \E cred \in CredOutcomes, http \in HttpOutcomes :
        LET as_project_id == getenv("AS_GOOGLE_CLOUD_PROJECT")
            ae_project_id == getenv("GOOGLE_CLOUD_PROJECT")
            ae_location_id == IF Truthy(FLAGS.location) THEN FLAGS.location
                              ELSE getenv("GOOGLE_CLOUD_LOCATION")
            base == discovery_engine_url
            ae_url == "projects/" \o Str(ae_project_id) \o "/locations/"
                      \o Str(ae_location_id) \o "/reasoningEngines/" \o Str(agent_engine_id)
            payload == [ displayName |-> USE_CASE_NAME,
                         description |-> "Weather agent that provides weather information for "
                                         \o Str(FLAGS.company_name) \o ".",
                         reasoning_engine |-> ae_url ]
        IN  AuthenticatedAction("POST", base, base, as_project_id, Some(payload),
                                << "API Response", "Successfully created agent" >>, cred, http)
    /\ UNCHANGED << program, FLAGS, env, remoteVars >>

list_as_agents ==
    /\ pc = "list_as_agents"
    /\ \E cred \in CredOutcomes, http \in HttpOutcomes :
        LET project_id == IF Truthy(FLAGS.as_project_id) THEN FLAGS.as_project_id
                          ELSE getenv("AS_GOOGLE_CLOUD_PROJECT")
            base == discovery_engine_url
        IN  AuthenticatedAction("GET", base, base, project_id, None,
                                << "API Response" >>, cred, http)
    /\ UNCHANGED << program, FLAGS, env, remoteVars >>

delete_as_agent(as_agent_id) ==
    /\ pc = "delete_as_agent"
    /\ \E cred \in CredOutcomes, http \in HttpOutcomes :
        LET project_id == IF Truthy(FLAGS.as_project_id) THEN FLAGS.as_project_id
                          ELSE getenv("AS_GOOGLE_CLOUD_PROJECT")
            base == discovery_engine_url
            agent_url == os_path_join(base, Str(as_agent_id))
        IN  AuthenticatedAction("DELETE", agent_url, base, project_id, None,
                                << "API Response", "Successfully deleted agent" >>, cred, http)
    /\ UNCHANGED << program, FLAGS, env, remoteVars >>

\* Variant of Dispatch that tests --list before --link.
Dispatch_list_first ==
    IF FLAGS.list THEN "list_as_agents"
    ELSE IF FLAGS.link /\ Truthy(FLAGS.resource_id) THEN "link_agent_to_agentspace"
    ELSE IF FLAGS.delete /\ Truthy(FLAGS.as_agent_id) THEN "delete_as_agent"
    ELSE "ValueError"

\* Variant of Dispatch whose first test forgets FLAGS.resource_id.
Dispatch_link_unchecked ==
    IF FLAGS.link THEN "link_agent_to_agentspace"
    ELSE IF FLAGS.list THEN "list_as_agents"
    ELSE IF FLAGS.delete /\ Truthy(FLAGS.as_agent_id) THEN "delete_as_agent"
    ELSE "ValueError"

\* main(argv) of as_deploy.py: the if/elif chain that selects the action.
Dispatch ==
    IF FLAGS.link /\ Truthy(FLAGS.resource_id) THEN "link_agent_to_agentspace"
    ELSE IF FLAGS.list THEN "list_as_agents"
    ELSE IF FLAGS.delete /\ Truthy(FLAGS.as_agent_id) THEN "delete_as_agent"
    ELSE "ValueError"

main ==
    /\ program = "as_deploy"
    /\ pc = "main"
    /\ IF Dispatch = "ValueError"
       THEN /\ pc' = "exited"
            /\ raised' = "ValueError"
            /\ exitStatus' = 1
       ELSE /\ pc' = Dispatch
            /\ UNCHANGED << raised, exitStatus >>
    /\ UNCHANGED << program, deployVars, out, remoteVars >>


\* ---------------------------------------------------------- test_deploy.py
ArgSpace ==
    [ mode        : { None, Some("remote"), Some("local") },
      resource_id : { None, Some("re1") },
      user_id     : { "test_user", "u2" } ]

SessionIds == { "s1", "s2" }

\* Lines input() can return; every one but "quit" is a query.
ConsoleLines == { "quit", "QUIT", "hello" }

\* The shapes of a streamed event that the loop body tells apart:
\* content is "absent", "no_parts" (no 'parts' key), "text" (one part with
\* 'text') or "blob" (one part without 'text'); function_call is "absent",
\* "full", or lacks 'name' or 'args'.
Events ==
    { [ content |-> "text", function_call |-> "absent" ],
      [ content |-> "blob", function_call |-> "absent" ],
      [ content |-> "no_parts", function_call |-> "full" ],
      [ content |-> "absent", function_call |-> "full" ],
      [ content |-> "absent", function_call |-> "no_name" ],
      [ content |-> "text", function_call |-> "no_args" ],
      [ content |-> "absent", function_call |-> "absent" ] }

RECURSIVE SeqsUpTo(_, _)
SeqsUpTo(S, n) ==
    IF n = 0 THEN { << >> }
    ELSE LET shorter == SeqsUpTo(S, n - 1)
         IN  shorter \cup { Append(q, e) : q \in { r \in shorter : Len(r) = n - 1 }, e \in S }

\* The body of the for loop for one event: what it prints and whether the
\* f-string of line 60 raises KeyError.
HandleEvent(event) ==
    LET printedEvent == << "event" >>
        printedText == IF event.content = "text" THEN << "Response" >> ELSE << >>
        keyError == event.function_call \in { "no_name", "no_args" }
        printedCall == IF event.function_call = "full" THEN << "Called function" >> ELSE << >>
    IN  [ printed |-> printedEvent \o printedText \o printedCall, raises |-> keyError ]

\* The for loop over the events of one stream_query: the lines printed up to
\* the first event whose handling raises, and whether one did.
RECURSIVE HandleEvents(_)
HandleEvents(events) ==
    IF events = << >> THEN [ printed |-> << >>, raises |-> FALSE ]
    ELSE LET h == HandleEvent(Head(events))
         IN  IF h.raises THEN h
             ELSE LET rest == HandleEvents(Tail(events))
                  IN  [ printed |-> h.printed \o rest.printed, raises |-> rest.raises ]

Call(op, sid, message) ==
    [ op |-> op, user_id |-> args.user_id, session_id |-> sid, message |-> message ]

Queries == SelectSeq(calls, LAMBDA c : c.op = "stream_query")

Exit(exc) ==
    /\ pc' = "exited"
    /\ raised' = exc
    /\ exitStatus' = IF exc = "" THEN 0 ELSE 1

\* main() of test_deploy.py.
test_deploy_main ==
    /\ program = "test_deploy"
    /\ pc = "main"
    /\ IF args.mode = Some("remote") /\ args.resource_id # None
       THEN /\ pc' = "run_remote"
            /\ UNCHANGED << raised, exitStatus >>
       ELSE Exit("ValueError")
    /\ UNCHANGED << program, deployVars, out, remoteVars >>

\* run_remote up to the loop: vertexai.init, agent_engines.get, create_session.
run_remote_open ==
    /\ pc = "run_remote"
    /\ \/ /\ Exit("get_error")
          /\ UNCHANGED << out, session, calls >>
       \/ /\ Exit("create_session_error")
          /\ out' = out \o << "Found agent" >>
          /\ calls' = Append(calls, Call("create_session", "", ""))
          /\ UNCHANGED session
       \/ \E sid \in SessionIds :
          /\ session' = Some([ id |-> sid, state |-> "empty" ])
          /\ calls' = Append(calls, Call("create_session", sid, ""))
          /\ out' = out \o << "Found agent", "Created session", "Session state", "Type 'quit' to exit." >>
          /\ pc' = "loop"
          /\ UNCHANGED << raised, exitStatus >>
    /\ UNCHANGED << program, deployVars, args, inputs >>

\* input() raises (end of input, interrupt): the error leaves run_remote.
run_remote_input_error ==
    /\ pc = "loop"
    /\ Exit("EOFError")
    /\ UNCHANGED << program, deployVars, out, remoteVars >>

\* Variant of run_remote_query without the comparison of line 47: every
\* line read, "quit" included, is submitted.
run_remote_query_no_quit_test ==
    /\ pc = "loop"
    /\ Len(Queries) < MaxQueries
    /\ \E user_input \in ConsoleLines, events \in SeqsUpTo(Events, MaxEvents),
          streamFails \in BOOLEAN :
        LET h == HandleEvents(events)
        IN  /\ inputs' = Append(inputs, user_input)
            /\ calls' = Append(calls, Call("stream_query", session[1].id, user_input))
            /\ out' = out \o h.printed
            /\ IF h.raises THEN Exit("KeyError")
               ELSE IF streamFails THEN Exit("stream_query_error")
               ELSE UNCHANGED << pc, raised, exitStatus >>
    /\ UNCHANGED << program, deployVars, args, session >>

\* One iteration that reads a line other than "quit": stream_query and the
\* for loop over its events.  streamFails: the generator raises after
\* having yielded events.
run_remote_query ==
    /\ pc = "loop"
    /\ Len(Queries) < MaxQueries
    /\ \E user_input \in ConsoleLines, events \in SeqsUpTo(Events, MaxEvents),
          streamFails \in BOOLEAN :
        LET h == HandleEvents(events)
        IN  /\ user_input # "quit"
            /\ inputs' = Append(inputs, user_input)
            /\ calls' = Append(calls, Call("stream_query", session[1].id, user_input))
            /\ out' = out \o h.printed
            /\ IF h.raises THEN Exit("KeyError")
               ELSE IF streamFails THEN Exit("stream_query_error")
               ELSE UNCHANGED << pc, raised, exitStatus >>
    /\ UNCHANGED << program, deployVars, args, session >>

\* The iteration that reads "quit": break, then delete_session and return.
run_remote_quit ==
    /\ pc = "loop"
    /\ inputs' = Append(inputs, "quit")
    /\ calls' = Append(calls, Call("delete_session", session[1].id, ""))
    /\ \/ /\ out' = out \o << "Deleted session" >>
          /\ Exit("")
       \/ /\ out' = out
          /\ Exit("delete_session_error")
    /\ UNCHANGED << program, deployVars, args, session >>

\* ------------------------------------------------------------ the system
\* A run is one invocation of one of the two executables; the flags and
\* arguments of the other one do not exist in it and stay at their defaults.
DefaultFlags ==
    [ as_project_id |-> None, ae_project_id |-> None, location |-> None,
      company_name |-> Some("Datatonic"), list |-> FALSE, link |-> FALSE,
      delete |-> FALSE, resource_id |-> None, as_agent_id |-> None ]

DefaultEnv ==
    [ AS_GOOGLE_CLOUD_PROJECT |-> None, AGENT_SPACE_APP_ID |-> Some("app1"),
      AGENT_SPACE_LOCATION |-> Some("global"), GOOGLE_CLOUD_PROJECT |-> Some("aeproj"),
      GOOGLE_CLOUD_LOCATION |-> Some("us-central1") ]

DefaultArgs == [ mode |-> None, resource_id |-> None, user_id |-> "test_user" ]

Init ==
    /\ \/ /\ program = "as_deploy"
          /\ FLAGS \in FlagSpace
          /\ env \in EnvSpace
          /\ args = DefaultArgs
       \/ /\ program = "test_deploy"
          /\ FLAGS = DefaultFlags
          /\ env = DefaultEnv
          /\ args \in ArgSpace
    /\ pc = "main"
    /\ url = None
    /\ tokenCalls = 0
    /\ credential = ""
    /\ requests = << >>
    /\ out = << >>
    /\ raised = ""
    /\ exitStatus = -1
    /\ session = None
    /\ inputs = << >>
    /\ calls = << >>

Next ==
    \/ main
    \/ link_agent_to_agentspace(FLAGS.resource_id)
    \/ list_as_agents
    \/ delete_as_agent(FLAGS.as_agent_id)
    \/ test_deploy_main
    \/ run_remote_open
    \/ run_remote_input_error
    \/ run_remote_query
    \/ run_remote_quit

Spec == Init /\ [][Next]_vars

\* ------------------------------------------------------------ properties
Range(q) == { q[i] : i \in 1..Len(q) }

CallsOf(op) == SelectSeq(calls, LAMBDA c : c.op = op)

\* C1: in run_remote, once the line "quit" has been read (after n >= 0 other
\* lines whose queries all completed), the loop is over, "quit" is the last
\* line read and was never submitted as a query, and the SDK calls are
\* exactly: create_session, one stream_query per earlier line in order on
\* the created session, then one delete_session with the user id and the
\* id of the session create_session returned.
C1_QuitDeletesSessionOnce ==
    (program = "test_deploy" /\ "quit" \in Range(inputs)) =>
        /\ pc = "exited"
        /\ inputs[Len(inputs)] = "quit"
        /\ \A i \in 1..(Len(inputs) - 1) : inputs[i] # "quit"
        /\ \A c \in Range(Queries) : c.message # "quit"
        /\ Len(CallsOf("delete_session")) = 1
        /\ Len(calls) = Len(inputs) + 1
        /\ calls[1] = Call("create_session", session[1].id, "")
        /\ \A i \in 1..(Len(inputs) - 1) :
              calls[i + 1] = Call("stream_query", session[1].id, inputs[i])
        /\ calls[Len(calls)] = Call("delete_session", session[1].id, "")

\* C1 witness: a run that made two or more queries, then read "quit"
\* and returned normally.
C1_Witness ==
    /\ program = "test_deploy"
    /\ pc = "exited"
    /\ raised = ""
    /\ Len(Queries) >= 2
    /\ inputs[Len(inputs)] = "quit"

\* C2: once run_remote has created the session, the session has been deleted
\* whenever run_remote has been left, whatever ended the loop.
C2_SessionAlwaysDeleted ==
    (program = "test_deploy" /\ pc = "exited" /\ session # None) =>
        Len(CallsOf("delete_session")) = 1

\* The three complete action selections of the linking tool.
LinkSet == FLAGS.link /\ FLAGS.resource_id \notin { None, Some("") }

ListSet == FLAGS.list

DeleteSet == FLAGS.delete /\ FLAGS.as_agent_id \notin { None, Some("") }

SelectionsSet ==
    (IF LinkSet THEN 1 ELSE 0) + (IF ListSet THEN 1 ELSE 0) + (IF DeleteSet THEN 1 ELSE 0)

\* main of as_deploy.py has run.
Dispatched == program = "as_deploy" /\ pc # "main"

\* The configuration error of main: ValueError with no credential fetch made.
ConfigError == pc = "exited" /\ raised = "ValueError" /\ tokenCalls = 0

NoNetworkCall == tokenCalls = 0 /\ credential = "" /\ requests = << >>

\* C3 as stated: an action runs only when exactly one selection is set; in
\* every other combination main raises the configuration error before any
\* credential fetch or HTTP request.
C3_ExactlyOneSelection ==
    Dispatched =>
        IF SelectionsSet = 1 THEN ~ConfigError
        ELSE ConfigError /\ NoNetworkCall

\* C3 amended: main raises the configuration error, before any credential
\* fetch or HTTP request, exactly when none of the three selections is set;
\* when one or more are set it runs one action, the first set in the order
\* link, list, delete.
C3_FirstSelectionWins ==
    Dispatched =>
        /\ ConfigError <=> SelectionsSet = 0
        /\ SelectionsSet = 0 => NoNetworkCall
        /\ pc = "link_agent_to_agentspace" => LinkSet
        /\ pc = "list_as_agents" => ~LinkSet /\ ListSet
        /\ pc = "delete_as_agent" => ~LinkSet /\ ~ListSet /\ DeleteSet
        /\ \A i \in 1..Len(requests) :
              requests[i].method = IF LinkSet THEN "POST"
                                   ELSE IF ListSet THEN "GET" ELSE "DELETE"

\* C3 witness: link and list both selected, and the link request was sent.
C3_Witness ==
    /\ Dispatched
    /\ LinkSet /\ ListSet
    /\ pc = "exited"
    /\ Len(requests) = 1
    /\ requests[1].method = "POST"

\* --link without a resource id, or --delete without an agent id.
MissingIdentifier ==
    \/ FLAGS.link /\ FLAGS.resource_id \in { None, Some("") }
    \/ FLAGS.delete /\ FLAGS.as_agent_id \in { None, Some("") }

\* C4 as stated: with --link but no resource id, or --delete but no agent
\* id, whatever the other flags, main raises the configuration error and the
\* run makes no network call.
C4_MissingIdentifierRejected ==
    (Dispatched /\ MissingIdentifier) => ConfigError /\ NoNetworkCall

\* C4 amended: with --link but no resource id, or --delete but no agent id,
\* main raises the configuration error and the run makes no network call
\* provided no other complete selection (--list, or the other of link/delete
\* with its identifier) is set; if one is, that action runs instead and no
\* configuration error is raised.
C4_MissingIdentifierRejectedUnlessOther ==
    (Dispatched /\ MissingIdentifier) =>
        /\ SelectionsSet = 0 => ConfigError /\ NoNetworkCall
        /\ SelectionsSet > 0 => ~ConfigError /\ (pc = "exited" => tokenCalls = 1)

\* C4 witness: --link without a resource id and nothing else selected, after
\* main has raised.
C4_Witness ==
    /\ Dispatched
    /\ FLAGS.link /\ FLAGS.resource_id = None
    /\ SelectionsSet = 0
    /\ pc = "exited"
    /\ raised = "ValueError"

\* The lines each log category prints.
CategoryLines(category) ==
    CASE category = "http_status" -> << "HTTP error occurred", "Response Content" >>
      [] category = "connection"  -> << "Connection error occurred" >>
      [] category = "timeout"     -> << "Timeout error occurred" >>
      [] category = "other"       -> << "An error occurred" >>

\* The category C5 gives each failure: every timeout, connect timeouts
\* included, is a timeout.
CategoryAsStated(failure) ==
    CASE failure = "HTTPError" -> "http_status"
      [] failure \in { "Timeout", "ReadTimeout", "ConnectTimeout" } -> "timeout"
      [] failure \in { "ConnectionError", "SSLError", "ProxyError" } -> "connection"
      [] OTHER -> "other"

\* The same, but a connect timeout is a connection error.
CategoryAmended(failure) ==
    CASE failure = "HTTPError" -> "http_status"
      [] failure \in { "Timeout", "ReadTimeout" } -> "timeout"
      [] failure \in { "ConnectionError", "SSLError", "ProxyError", "ConnectTimeout" } -> "connection"
      [] OTHER -> "other"

FailedRequest ==
    /\ program = "as_deploy"
    /\ Len(requests) >= 1
    /\ requests[1].outcome # "ok"

Guidance ==
    << "Error getting access token",
       "Please ensure you are authenticated with 'gcloud auth application-default login'" >>

\* C7: when credential resolution raises, the error and the login guidance
\* are printed, the process exits with status 1 through exit(), the fetch was
\* attempted once and no directory request was sent.
C7_CredentialFailureIsFatal ==
    (program = "as_deploy" /\ credential = "raises") =>
        /\ pc = "exited"
        /\ raised = "SystemExit"
        /\ exitStatus = 1
        /\ out = Guidance
        /\ tokenCalls = 1
        /\ requests = << >>

\* C7 witness: a delete whose credential resolution raised.
C7_Witness ==
    /\ program = "as_deploy"
    /\ credential = "raises"
    /\ DeleteSet /\ ~LinkSet /\ ~ListSet
    /\ exitStatus = 1

\* The configuration discovery_engine_url reads.
ConfiguredProject ==
    IF FLAGS.as_project_id \in { None, Some("") } THEN env["AS_GOOGLE_CLOUD_PROJECT"]
    ELSE FLAGS.as_project_id

ConfiguredApp == env["AGENT_SPACE_APP_ID"]

ConfiguredLocation == env["AGENT_SPACE_LOCATION"]

UrlPath(project, app, location) ==
    "/v1alpha/projects/" \o project \o "/locations/" \o location
    \o "/collections/default_collection/engines/" \o app
    \o "/assistants/default_assistant/agents"

\* C8: the URL an action built is determined by the (project, app, location)
\* configuration: bare hostname for "global", L-prefixed hostname for any
\* other location L, always the fixed path; proj1/app1/global gives the
\* example URL.
C8_UrlOfConfiguration ==
    url # None =>
        LET P == Str(ConfiguredProject)
            A == Str(ConfiguredApp)
            L == Str(ConfiguredLocation)
        IN  /\ ConfiguredLocation = Some("global") =>
                url[1] = "https://discoveryengine.googleapis.com" \o UrlPath(P, A, L)
            /\ ConfiguredLocation # Some("global") =>
                url[1] = "https://" \o L \o "-discoveryengine.googleapis.com" \o UrlPath(P, A, L)
            /\ (P = "proj1" /\ A = "app1" /\ L = "global") =>
                url[1] = "https://discoveryengine.googleapis.com/v1alpha/projects/proj1/locations/global/collections/default_collection/engines/app1/assistants/default_assistant/agents"

\* C8 witness: the example URL has been built.
C8_Witness ==
    url = Some("https://discoveryengine.googleapis.com/v1alpha/projects/proj1/locations/global/collections/default_collection/engines/app1/assistants/default_assistant/agents")

Hostname(location) ==
    IF location = "global" THEN "discoveryengine.googleapis.com"
    ELSE location \o "-discoveryengine.googleapis.com"

\* C9 as stated: each input of the URL comes from its command-line override
\* when one is given (--as_project_id for the project, --location for the
\* location) and from its environment variable otherwise.
C9_OverridesDetermineUrl ==
    url # None =>
        LET P == Str(IF FLAGS.as_project_id \notin { None, Some("") } THEN FLAGS.as_project_id
                     ELSE env["AS_GOOGLE_CLOUD_PROJECT"])
            L == Str(IF FLAGS.location \notin { None, Some("") } THEN FLAGS.location
                     ELSE env["AGENT_SPACE_LOCATION"])
        IN  url[1] = "https://" \o Hostname(L) \o UrlPath(P, Str(env["AGENT_SPACE_APP_ID"]), L)

\* C9 amended: only the project has an override: it is --as_project_id when
\* that is given and not empty, AS_GOOGLE_CLOUD_PROJECT otherwise; the
\* application and the location of the URL always are AGENT_SPACE_APP_ID and
\* AGENT_SPACE_LOCATION, and --location changes nothing in the URL.
C9_OnlyProjectOverridden ==
    url # None =>
        LET P == Str(IF FLAGS.as_project_id \notin { None, Some("") } THEN FLAGS.as_project_id
                     ELSE env["AS_GOOGLE_CLOUD_PROJECT"])
            L == Str(env["AGENT_SPACE_LOCATION"])
        IN  url[1] = "https://" \o Hostname(L) \o UrlPath(P, Str(env["AGENT_SPACE_APP_ID"]), L)

\* C9 witness: --as_project_id and --location both given; the URL has the
\* flag's project and the environment's location.
C9_Witness ==
    /\ FLAGS.as_project_id = Some("projF")
    /\ FLAGS.location = Some("europe-west2")
    /\ env["AS_GOOGLE_CLOUD_PROJECT"] = Some("proj1")
    /\ env["AGENT_SPACE_LOCATION"] = Some("eu")
    /\ url = Some("https://eu-discoveryengine.googleapis.com" \o UrlPath("projF", "app1", "eu"))

\* C10: in link, list and delete, the X-Goog-User-Project header of the
\* request names the project that is in the URL the action built.
C10_BillingProjectIsUrlProject ==
    \A i \in 1..Len(requests) :
        url[1] = "https://" \o Hostname(Str(ConfiguredLocation))
                 \o UrlPath(Str(requests[i].headers.XGoogUserProject),
                            Str(ConfiguredApp), Str(ConfiguredLocation))

=============================================================================
